---- MODULE Spec2Model ----
(***************************************************************************)
(* Order placement of the ecommerce-platform: order-service CreateOrder    *)
(* (order_server.go) calling product-service UpdateStock (product_client,  *)
(* product_server.go, postgres.go) and writing the orders / order_items    *)
(* tables.  Several CreateOrder calls run concurrently, one goroutine per  *)
(* inbound gRPC request; every SQL statement and every RPC is one step.    *)
(*                                                                         *)
(* Prices and totals are float64 in the source; the model uses small       *)
(* integers, on which float64 arithmetic is exact.  Quantities, deltas and *)
(* stock are int32 / INT in the source; the values of the model stay far   *)
(* from the 32-bit limits.  created_at is not modelled.                    *)
(***************************************************************************)
EXTENDS Integers, Sequences, FiniteSets, TLC

\* ---- bounds ----
NumCalls == 2       \* concurrent CreateOrder calls
MaxItems == 2       \* longest item list of a request
InitStock == 1      \* seeded stock of every known product
MaxAdmin == 1       \* direct UpdateStock calls by other clients

Calls == 1..NumCalls
KnownProducts == {"P1", "P2"}            \* rows of the products table
ProductIds == KnownProducts \cup {"PX"}  \* PX has no row
Quantities == {-1, 0, 1, 2}
Prices == {3}
Users == {"U1"}
AdminDeltas == {1}

\* proto OrderItem {product_id, quantity, price}
OrderItem == [product_id : ProductIds, quantity : Quantities, price : Prices]

RECURSIVE SeqsUpTo(_, _)
SeqsUpTo(S, n) ==
    IF n = 0 THEN {<<>>}
    ELSE LET shorter == SeqsUpTo(S, n - 1)
         IN shorter \cup {Append(s, x) : s \in {t \in shorter : Len(t) = n - 1}, x \in S}

\* proto CreateOrderRequest {user_id, items}
CreateOrderRequest == [user_id : Users, items : SeqsUpTo(OrderItem, MaxItems)]

\* the requests of the competing buyers: one unit of one known product
CompetingRequest ==
    {r \in CreateOrderRequest :
        /\ Len(r.items) = 1
        /\ r.items[1].quantity = 1
        /\ r.items[1].product_id \in KnownProducts}

\* call 1 is the placement under study and takes any request; the other
\* calls are competing buyers
RequestsOf(c) == IF c = 1 THEN CreateOrderRequest ELSE CompetingRequest

\* what the payment collaborator would answer for a placement
AuthorizeOutcomes == {"approved", "declined", "unavailable"}

\* how one UpdateStock RPC can end, seen from the order-service; "cancelled"
\* is the caller cancelling ctx, which CreateOrder passes on to the RPC
RpcOutcomes == {"delivered", "lost_request", "lost_response", "cancelled"}

\* ids asked of GetOrder (0 is the id of no order) and users asked of ListOrders
QueryIds == {0, 1, 2}
QueryUsers == Users \cup {"U0"}
NoQuery == [op |-> "none", code |-> "none", orders |-> {}]

NoRequest == [user_id |-> "", items |-> <<>>]
NoOrder == [id |-> 0, user_id |-> "", items |-> <<>>, total |-> 0, status |-> ""]

VARIABLES
    stock,        \* products.stock, per known product id
    orders,       \* rows of the orders table
    order_items,  \* rows of the order_items table, grouped by order_id
    pc,           \* position of each CreateOrder call
    req,          \* the request of each call
    cursor,       \* index of the loop the call is in
    total,        \* local variable total of each call
    calls,        \* UpdateStock RPCs each call has issued, in order
    result,       \* gRPC status code each call returned
    resp,         \* proto.Order each call returned
    authorize,    \* answer the payment collaborator gives in this run
    admin,        \* number of direct UpdateStock calls made so far
    restock,      \* sum of the deltas of those calls, per product
    query         \* response of the latest GetOrder / ListOrders call

vars == <<stock, orders, order_items, pc, req, cursor, total, calls, result,
          resp, authorize, admin, restock, query>>

\* ---- product-service ----

\* mutant of GetProduct: the missing row is not reported
GetProduct_AlwaysFound(s, id) == "OK"

\* Postgres.GetProduct: ErrNotFound when no row has the id
GetProduct(s, id) == IF id \in DOMAIN s THEN "OK" ELSE "NotFound"

\* mutant of UpdateStock: read-then-write on a stale snapshot of the row
UpdateStock_StaleRead(s, id, delta) ==
    IF id \in DOMAIN s THEN [s EXCEPT ![id] = InitStock + delta] ELSE s

\* mutant of UpdateStock: SET stock = $1 instead of stock + $1
UpdateStock_SetsDelta(s, id, delta) ==
    IF id \in DOMAIN s THEN [s EXCEPT ![id] = delta] ELSE s

\* Postgres.UpdateStock: UPDATE products SET stock = stock + $1 WHERE id=$2
UpdateStock(s, id, delta) ==
    IF id \in DOMAIN s THEN [s EXCEPT ![id] = @ + delta] ELSE s

\* ProductClient.UpdateStock as the order-service sees it: the table after
\* the call and the error returned
ClientUpdateStock(s, id, delta, outcome) ==
    CASE outcome = "delivered" ->
            [stock |-> UpdateStock(s, id, delta), applied |-> id \in DOMAIN s,
             err |-> GetProduct(s, id)]
      [] outcome = "lost_request" ->
            [stock |-> s, applied |-> FALSE, err |-> "Unavailable"]
      [] outcome = "lost_response" ->
            [stock |-> UpdateStock(s, id, delta), applied |-> id \in DOMAIN s,
             err |-> "DeadlineExceeded"]
      [] outcome = "cancelled" ->
            [stock |-> s, applied |-> FALSE, err |-> "Canceled"]

\* mutant of RangeItem: the items are taken last to first
RangeItem_Reversed(items, i) == items[Len(items) + 1 - i]

\* CreateOrder line 255: for _, item := range req.Items, i-th iteration
RangeItem(items, i) == items[i]

\* mutant of Failed: the error of UpdateStock is dropped
Failed_Ignored(err) == FALSE

\* CreateOrder line 256: err != nil
Failed(err) == err # "OK"

\* mutant of LoopDone: the loop is left after its first item
LoopDone_Early(items, i) == TRUE

\* CreateOrder line 255: the range loop has run its last iteration
LoopDone(items, i) == i = Len(items)

\* mutant of LineAmount: the price is left out
LineAmount_QuantityOnly(item) == item.quantity

\* CreateOrder line 259: float64(item.Quantity) * item.Price
LineAmount(item) == item.quantity * item.price

\* mutant of InsertRow: the new row replaces the table
InsertRow_Overwrite(table, row) == {row}

\* INSERT INTO orders: the table with the new row
InsertRow(table, row) == table \cup {row}

\* ---- order-service ----

Start ==
    /\ stock = [p \in KnownProducts |-> InitStock]
    /\ orders = {}
    /\ order_items = [c \in Calls |-> <<>>]
    /\ pc = [c \in Calls |-> "idle"]
    /\ req = [c \in Calls |-> NoRequest]
    /\ cursor = [c \in Calls |-> 0]
    /\ total = [c \in Calls |-> 0]
    /\ calls = [c \in Calls |-> <<>>]
    /\ result = [c \in Calls |-> "none"]
    /\ resp = [c \in Calls |-> NoOrder]
    /\ admin = 0
    /\ restock = [p \in KnownProducts |-> 0]
    /\ query = NoQuery

\* CreateOrder never asks the payment collaborator
Init == Start /\ authorize = "unasked"

\* the same start, with the answer the payment collaborator would give
InitPay == Start /\ authorize \in AuthorizeOutcomes

\* CreateOrder, entry: the only validation is len(req.Items) == 0
CreateOrder(c) ==
    /\ pc[c] = "idle"
    /\ \E r \in RequestsOf(c) :
        /\ req' = [req EXCEPT ![c] = r]
        /\ IF Len(r.items) = 0
           THEN /\ pc' = [pc EXCEPT ![c] = "done"]
                /\ result' = [result EXCEPT ![c] = "InvalidArgument"]
                /\ cursor' = cursor
           ELSE /\ pc' = [pc EXCEPT ![c] = "reserve"]
                /\ result' = result
                /\ cursor' = [cursor EXCEPT ![c] = 1]
    /\ UNCHANGED <<stock, orders, order_items, total, calls, resp, authorize, query, admin, restock>>

\* CreateOrder, body of the first loop: UpdateStock(item.ProductId, -item.Quantity)
ReserveItem(c) ==
    /\ pc[c] = "reserve"
    /\ \E outcome \in RpcOutcomes :
        LET item == RangeItem(req[c].items, cursor[c])
            r == ClientUpdateStock(stock, item.product_id, 0 - item.quantity, outcome)
        IN /\ stock' = r.stock
           /\ calls' = [calls EXCEPT ![c] = Append(@,
                  [product_id |-> item.product_id, delta |-> 0 - item.quantity,
                   applied |-> r.applied, err |-> r.err])]
           /\ IF Failed(r.err)
              THEN /\ pc' = [pc EXCEPT ![c] = "done"]
                   /\ result' = [result EXCEPT ![c] = "FailedPrecondition"]
                   /\ UNCHANGED <<cursor, total>>
              ELSE /\ total' = [total EXCEPT ![c] = @ + LineAmount(item)]
                   /\ result' = result
                   /\ IF LoopDone(req[c].items, cursor[c])
                      THEN /\ pc' = [pc EXCEPT ![c] = "insert_order"]
                           /\ cursor' = cursor
                      ELSE /\ pc' = pc
                           /\ cursor' = [cursor EXCEPT ![c] = @ + 1]
    /\ UNCHANGED <<orders, order_items, req, resp, authorize, query, admin, restock>>

\* CreateOrder: id := uuid.NewString(); INSERT INTO orders ... "CREATED"
InsertOrder(c) ==
    /\ pc[c] = "insert_order"
    /\ \E ok \in BOOLEAN :
        IF ok
        THEN /\ orders' = InsertRow(orders, [id |-> c, user_id |-> req[c].user_id,
                                           total |-> total[c], status |-> "CREATED"])
             /\ pc' = [pc EXCEPT ![c] = "insert_items"]
             /\ cursor' = [cursor EXCEPT ![c] = 1]
             /\ result' = result
        ELSE /\ orders' = orders
             /\ pc' = [pc EXCEPT ![c] = "done"]
             /\ cursor' = cursor
             /\ result' = [result EXCEPT ![c] = "Internal"]
    /\ UNCHANGED <<stock, order_items, req, total, calls, resp, authorize, query, admin, restock>>

\* CreateOrder, body of the second loop: INSERT INTO order_items, error
\* ignored; after the last item the response is built and returned
InsertItem(c) ==
    /\ pc[c] = "insert_items"
    /\ \E ok \in BOOLEAN :
        LET item == req[c].items[cursor[c]]
        IN order_items' = IF ok THEN [order_items EXCEPT ![c] = Append(@, item)]
                          ELSE order_items
    /\ IF cursor[c] = Len(req[c].items)
       THEN /\ pc' = [pc EXCEPT ![c] = "done"]
            /\ result' = [result EXCEPT ![c] = "OK"]
            /\ resp' = [resp EXCEPT ![c] =
                  [id |-> c, user_id |-> req[c].user_id, items |-> req[c].items,
                   total |-> total[c], status |-> "CREATED"]]
            /\ cursor' = cursor
       ELSE /\ cursor' = [cursor EXCEPT ![c] = @ + 1]
            /\ UNCHANGED <<pc, result, resp>>
    /\ UNCHANGED <<stock, orders, req, total, calls, authorize, query, admin, restock>>

\* ProductServer.UpdateStock called directly by another client
AdminUpdateStock ==
    /\ admin < MaxAdmin
    /\ \E id \in KnownProducts, delta \in AdminDeltas :
        /\ stock' = UpdateStock(stock, id, delta)
        /\ restock' = [restock EXCEPT ![id] = @ + delta]
    /\ admin' = admin + 1
    /\ UNCHANGED <<orders, order_items, pc, req, cursor, total, calls, result,
                   resp, authorize, query>>

\* proto.Order built by GetOrder and ListOrders from a row: no items
RowToOrder(o) == [id |-> o.id, user_id |-> o.user_id, total |-> o.total,
                  status |-> o.status]

\* mutant of GetOrder: the row read is removed from the table
GetOrder_Deleting ==
    /\ \E id \in QueryIds :
        LET rows == {o \in orders : o.id = id}
        IN /\ query' = IF rows = {}
                       THEN [op |-> "GetOrder", code |-> "NotFound", orders |-> {}]
                       ELSE [op |-> "GetOrder", code |-> "OK",
                             orders |-> {RowToOrder(o) : o \in rows}]
           /\ orders' = orders \ rows
    /\ UNCHANGED <<stock, order_items, pc, req, cursor, total, calls,
                   result, resp, authorize, admin, restock>>

\* GetOrder: SELECT ... FROM orders WHERE id=$1, NotFound when Scan fails
GetOrder ==
    /\ \E id \in QueryIds :
        LET rows == {o \in orders : o.id = id}
        IN query' = IF rows = {}
                    THEN [op |-> "GetOrder", code |-> "NotFound", orders |-> {}]
                    ELSE [op |-> "GetOrder", code |-> "OK",
                          orders |-> {RowToOrder(o) : o \in rows}]
    /\ UNCHANGED <<stock, orders, order_items, pc, req, cursor, total, calls,
                   result, resp, authorize, admin, restock>>

\* ListOrders: SELECT ... FROM orders WHERE user_id=$1
ListOrders ==
    /\ \E u \in QueryUsers :
        query' = [op |-> "ListOrders", code |-> "OK",
                  orders |-> {RowToOrder(o) : o \in {x \in orders : x.user_id = u}}]
    /\ UNCHANGED <<stock, orders, order_items, pc, req, cursor, total, calls,
                   result, resp, authorize, admin, restock>>

Next ==
    \/ \E c \in Calls : CreateOrder(c)
    \/ \E c \in Calls : ReserveItem(c)
    \/ \E c \in Calls : InsertOrder(c)
    \/ \E c \in Calls : InsertItem(c)
    \/ AdminUpdateStock

Spec == Init /\ [][Next]_vars

\* placements under every answer of the payment collaborator
SpecPay == InitPay /\ [][Next]_vars

\* the query surface next to the placements of calls 1 and 2
NextRead ==
    \/ \E c \in {1, 2} : CreateOrder(c)
    \/ \E c \in {1, 2} : ReserveItem(c)
    \/ \E c \in {1, 2} : InsertOrder(c)
    \/ \E c \in {1, 2} : InsertItem(c)
    \/ GetOrder
    \/ ListOrders

SpecRead == Init /\ [][NextRead]_vars

TypeOK ==
    /\ stock \in [KnownProducts -> Int]
    /\ pc \in [Calls -> {"idle", "reserve", "insert_order", "insert_items", "done"}]
    /\ admin \in 0..MaxAdmin

\* ---- observations used by the properties ----

\* net change the applied UpdateStock calls of one log made to product p
RECURSIVE NetDelta(_, _)
NetDelta(log, p) ==
    IF log = <<>> THEN 0
    ELSE LET k == log[Len(log)]
         IN NetDelta(SubSeq(log, 1, Len(log) - 1), p)
            + (IF k.applied /\ k.product_id = p THEN k.delta ELSE 0)

\* quantity of product p over an item list
RECURSIVE QuantityOf(_, _)
QuantityOf(items, p) ==
    IF items = <<>> THEN 0
    ELSE LET it == items[Len(items)]
         IN QuantityOf(SubSeq(items, 1, Len(items) - 1), p)
            + (IF it.product_id = p THEN it.quantity ELSE 0)

\* quantity of product p over the requests of the calls in S
RECURSIVE RequestedBy(_, _)
RequestedBy(S, p) ==
    IF S = {} THEN 0
    ELSE LET c == CHOOSE x \in S : TRUE
         IN QuantityOf(req[c].items, p) + RequestedBy(S \ {c}, p)

AllDone == \A c \in Calls : pc[c] = "done"

\* every item of the request of c was reserved: UpdateStock returned no error
AllReserved(c) ==
    /\ Len(req[c].items) > 0
    /\ Len(calls[c]) = Len(req[c].items)
    /\ \A n \in 1..Len(calls[c]) : calls[c][n].err = "OK"

\* the reservation loop of c ended on a failed UpdateStock
ReservationFailed(c) ==
    /\ pc[c] = "done"
    /\ calls[c] # <<>>
    /\ calls[c][Len(calls[c])].err # "OK"

\* the request of c has been received and every quantity in it is > 0
PositiveQuantities(c) ==
    /\ pc[c] # "idle"
    /\ \A n \in 1..Len(req[c].items) : req[c].items[n].quantity > 0

HasOrder(c) == \E o \in orders : o.id = c
OrderOf(c) == CHOOSE o \in orders : o.id = c

TransportErrors == {"Unavailable", "DeadlineExceeded", "Canceled"}

\* no UpdateStock call of c ended in a transport error
NoTransportError(c) ==
    \A n \in 1..Len(calls[c]) : calls[c][n].err \notin TransportErrors

\* ---- claims ----

\* C1: in every reachable state the stock of every product is >= 0.
C1_StockNeverNegative == \A p \in KnownProducts : stock[p] >= 0

\* C2: when N concurrent placements each reserve one unit of the same product
\* whose stock is K (N > K), exactly K reservations succeed and the other
\* N-K fail with InsufficientStock.
C2_ExactlyKSucceed ==
    ( /\ admin = 0
      /\ NumCalls > InitStock
      /\ \A c \in Calls :
            /\ Len(req[c].items) = 1
            /\ req[c].items[1].product_id = "P1"
            /\ req[c].items[1].quantity = 1
            /\ Len(calls[c]) = 1
            /\ NoTransportError(c) )
    => /\ Cardinality({c \in Calls : calls[c][1].err = "OK"}) = InitStock
       /\ \A c \in Calls : calls[c][1].err \in {"OK", "InsufficientStock"}

\* C3: Reserve(product, q) on a known product succeeds only if the stock is
\* >= q and then decrements it by exactly q in one step; when the stock is
\* < q it fails with InsufficientStock and leaves the stock unchanged.
C3_ReserveConditional ==
    [][\A c \in Calls :
         (Len(calls'[c]) = Len(calls[c]) + 1) =>
            LET k == calls'[c][Len(calls'[c])]
                q == 0 - k.delta
            IN (k.product_id \in KnownProducts /\ q > 0
                    /\ k.err \notin TransportErrors) =>
                 IF stock[k.product_id] >= q
                 THEN /\ k.err = "OK"
                      /\ stock' = [stock EXCEPT ![k.product_id] = @ - q]
                 ELSE /\ k.err = "InsufficientStock"
                      /\ stock' = stock]_vars

\* C4: once all placements have finished, the decrease of every product's
\* stock equals the quantity of that product over CONFIRMED orders, and a
\* placement without a CONFIRMED order has no net effect on any stock.
C4_StockMatchesConfirmed ==
    ( /\ AllDone
      /\ admin = 0
      /\ \A c \in Calls : PositiveQuantities(c) /\ NoTransportError(c) ) =>
        LET Confirmed == {c \in Calls : HasOrder(c) /\ OrderOf(c).status = "CONFIRMED"}
        IN \A p \in KnownProducts :
              /\ InitStock - stock[p] = RequestedBy(Confirmed, p)
              /\ \A c \in Calls \ Confirmed : NetDelta(calls[c], p) = 0

\* C5: when Reserve fails for item i of a placement, no later item is
\* attempted and every item reserved earlier is released: the placement has
\* no net effect on any product's stock.
C5_FailedReserveRestoresStock ==
    \A c \in Calls :
        ( /\ ReservationFailed(c)
          /\ PositiveQuantities(c)
          /\ ~calls[c][Len(calls[c])].applied ) =>
            /\ Len(calls[c]) <= Len(req[c].items)
            /\ \A p \in KnownProducts : NetDelta(calls[c], p) = 0

\* C6: a placement whose reservation fails persists an order record with
\* status CANCELLED and returns ReservationFailed to the caller.
C6_FailedReservePersistsCancelled ==
    \A c \in Calls :
        (ReservationFailed(c) /\ PositiveQuantities(c)) =>
            /\ HasOrder(c)
            /\ OrderOf(c).status = "CANCELLED"
            /\ result[c] = "ReservationFailed"

\* C7: a request with an empty item list or with an item of quantity <= 0 is
\* rejected as invalid with no side effects: no UpdateStock call is issued,
\* no stock changes and no order row or order item row is written.
C7_InvalidRequestRejected ==
    \A c \in Calls :
        ( /\ pc[c] # "idle"
          /\ \/ Len(req[c].items) = 0
             \/ \E n \in 1..Len(req[c].items) : req[c].items[n].quantity <= 0 )
        => /\ calls[c] = <<>>
           /\ ~HasOrder(c)
           /\ order_items[c] = <<>>
           /\ pc[c] = "done" => result[c] = "InvalidArgument"

\* C8: when payment declines or fails for a placement whose items were all
\* reserved, every reserved item is released, the order ends CANCELLED and
\* the caller receives PaymentFailed.
C8_PaymentFailureCompensates ==
    \A c \in Calls :
        ( /\ pc[c] = "done"
          /\ AllReserved(c)
          /\ PositiveQuantities(c)
          /\ HasOrder(c)
          /\ authorize \in {"declined", "unavailable"} )
        => /\ \A p \in KnownProducts : NetDelta(calls[c], p) = 0
           /\ OrderOf(c).status = "CANCELLED"
           /\ result[c] = "PaymentFailed"

\* C9: a placement whose items are all reserved and whose payment is approved
\* ends with the order CONFIRMED and each product's stock decremented by
\* exactly the ordered quantity.
C9_ApprovedPaymentConfirms ==
    \A c \in Calls :
        ( /\ pc[c] = "done"
          /\ AllReserved(c)
          /\ PositiveQuantities(c)
          /\ HasOrder(c)
          /\ authorize = "approved" )
        => /\ OrderOf(c).status = "CONFIRMED"
           /\ \A p \in KnownProducts :
                 NetDelta(calls[c], p) = 0 - QuantityOf(req[c].items, p)

\* C10: every order record persisted or returned has a status in
\* {PENDING, CONFIRMED, CANCELLED}, and a newly created order is PENDING.
C10_StatusDomain ==
    /\ \A o \in orders : o.status \in {"PENDING", "CONFIRMED", "CANCELLED"}
    /\ \A c \in Calls :
          resp[c] # NoOrder => resp[c].status \in {"PENDING", "CONFIRMED", "CANCELLED"}
    /\ \A c \in Calls :
          (HasOrder(c) /\ pc[c] = "insert_items") => OrderOf(c).status = "PENDING"

\* sum of quantity x price over an item list
RECURSIVE TotalAmount(_)
TotalAmount(items) ==
    IF items = <<>> THEN 0
    ELSE items[1].quantity * items[1].price + TotalAmount(Tail(items))

\* the step appends an UpdateStock call to the log of c
Issues(c) == Len(calls'[c]) = Len(calls[c]) + 1
Issued(c) == calls'[c][Len(calls'[c])]

\* index of the first failed call of a log, 0 when none failed
FirstFailure(log) ==
    IF \E n \in 1..Len(log) : log[n].err # "OK"
    THEN CHOOSE n \in 1..Len(log) :
            /\ log[n].err # "OK"
            /\ \A m \in 1..(n - 1) : log[m].err = "OK"
    ELSE 0

\* C12: a placement whose reservation loop has started reaches a terminal
\* order status also when the caller cancels the request: stock is never left
\* reserved with no corresponding order.
C12_CancelKeepsSagaRunning ==
    \A c \in Calls :
        ( /\ pc[c] = "done"
          /\ PositiveQuantities(c)
          /\ calls[c] # <<>>
          /\ calls[c][Len(calls[c])].err = "Canceled"
          /\ \E p \in KnownProducts : NetDelta(calls[c], p) < 0 )
        => /\ HasOrder(c)
           /\ OrderOf(c).status \in {"CONFIRMED", "CANCELLED"}

\* C13: the total of a created order equals the sum over its line items of
\* quantity x unit price, in the stored row and in the returned order.
C13_TotalIsSum ==
    \A c \in Calls :
        /\ HasOrder(c) => OrderOf(c).total = TotalAmount(req[c].items)
        /\ resp[c] # NoOrder => resp[c].total = TotalAmount(req[c].items)

C13_Witness ==
    \E c \in Calls :
        /\ HasOrder(c)
        /\ resp[c] # NoOrder
        /\ Len(req[c].items) = 2
        /\ req[c].items[1].quantity = 1
        /\ req[c].items[2].quantity = 2
        /\ OrderOf(c).total = 9

\* C14: calling Release twice for the same compensated item does not raise
\* the product's stock above its value before the matching reservation.
C14_ReleaseIdempotent ==
    \A c \in Calls : \A n \in 1..Len(calls[c]) :
        LET k == calls[c][n]
            \* the first release restores the value before the reservation
            released == UpdateStock(stock, k.product_id, 0 - k.delta)
            again == UpdateStock(released, k.product_id, 0 - k.delta)
        IN (k.applied /\ k.delta < 0) => again[k.product_id] <= released[k.product_id]

\* C15: Reserve or Release on an unknown product id fails with NotFound and
\* changes no product's stock.
C15_UnknownProductNotFound ==
    [][\A c \in Calls :
         (Issues(c) /\ Issued(c).product_id \notin KnownProducts) =>
            /\ stock' = stock
            /\ ~Issued(c).applied
            /\ Issued(c).err \notin TransportErrors => Issued(c).err = "NotFound"]_vars

C15_Witness ==
    \E c \in Calls :
        /\ ReservationFailed(c)
        /\ calls[c][Len(calls[c])].product_id = "PX"
        /\ calls[c][Len(calls[c])].err = "NotFound"
        /\ result[c] = "FailedPrecondition"

\* C16: Release(product, q) on a known product never fails, raises that
\* product's stock by exactly q whatever the current stock is, and changes
\* no other product's stock.
C16_ReleaseAddsExactly ==
    [][/\ \A c \in Calls :
            ( /\ Issues(c)
              /\ Issued(c).product_id \in KnownProducts
              /\ Issued(c).delta > 0
              /\ Issued(c).err \notin TransportErrors ) =>
                /\ Issued(c).err = "OK"
                /\ stock' = [stock EXCEPT ![Issued(c).product_id] = @ + Issued(c).delta]
       /\ admin' = admin + 1 =>
            \E p \in KnownProducts, d \in AdminDeltas :
                stock' = [stock EXCEPT ![p] = @ + d]]_vars

C16_Witness ==
    /\ admin = 1
    /\ \E c \in Calls : \E n \in 1..Len(calls[c]) :
          /\ calls[c][n].delta > 0
          /\ calls[c][n].err = "OK"
    /\ \E p \in KnownProducts : stock[p] = InitStock + 2

\* C17: GetOrder and ListOrders change neither any order record nor any
\* product's stock and issue no Reserve, Release or Authorize call.
C17_QueriesReadOnly ==
    [][query' # query =>
          UNCHANGED <<stock, orders, order_items, calls, authorize, pc, result, resp>>]_vars

C17_Witness ==
    /\ query.op = "ListOrders"
    /\ Cardinality(query.orders) = 2
    /\ Cardinality(orders) = 2

\* C18: an order record, once created, is never deleted: the stored orders
\* only grow.
C18_OrdersNeverDeleted == [][\A o \in orders : o \in orders']_vars

C18_Witness ==
    /\ Cardinality(orders) = 2
    /\ AllDone

\* C19: when two sagas contend for the last units of one product, exactly one
\* obtains them; the loser receives InsufficientStock, releases what it had
\* reserved for its other items and does not change the contested counter.
C19_OneWinner ==
    ( /\ admin = 0
      /\ Len(req[1].items) = 2 /\ Len(req[2].items) = 1
      /\ req[1].items[1].product_id = "P2" /\ req[1].items[1].quantity = 1
      /\ req[1].items[2].product_id = "P1" /\ req[1].items[2].quantity = InitStock
      /\ req[2].items[1].product_id = "P1" /\ req[2].items[1].quantity = InitStock
      /\ pc[1] = "done" /\ pc[2] = "done"
      /\ Len(calls[1]) >= 2 /\ calls[1][1].err = "OK"
      /\ NoTransportError(1) /\ NoTransportError(2) )
    => LET won1 == calls[1][2].err = "OK"
           won2 == calls[2][1].err = "OK"
       IN /\ won1 # won2
          /\ ~won1 => /\ calls[1][2].err = "InsufficientStock"
                      /\ \A p \in KnownProducts : NetDelta(calls[1], p) = 0
          /\ ~won2 => /\ calls[2][1].err = "InsufficientStock"
                      /\ \A p \in KnownProducts : NetDelta(calls[2], p) = 0

\* C20: compensation releases the reserved items in the exact reverse of the
\* order in which they were reserved.
C20_ReverseCompensation ==
    \A c \in Calls :
        ( /\ ReservationFailed(c)
          /\ PositiveQuantities(c)
          /\ NoTransportError(c) ) =>
            LET n == FirstFailure(calls[c])
            IN /\ Len(calls[c]) = 2 * n - 1
               /\ \A j \in 1..(n - 1) :
                     /\ calls[c][n + j].product_id = req[c].items[n - j].product_id
                     /\ calls[c][n + j].delta = req[c].items[n - j].quantity

\* C21: within one placement the UpdateStock calls are issued one at a time
\* in the order of the request's items, and the call for item N+1 is issued
\* only after the call for item N returned without error.
C21_SequentialInOrder ==
    \A c \in Calls :
        /\ Len(calls[c]) <= Len(req[c].items)
        /\ \A n \in 1..Len(calls[c]) :
              /\ calls[c][n].product_id = req[c].items[n].product_id
              /\ calls[c][n].delta = 0 - req[c].items[n].quantity
              /\ n < Len(calls[c]) => calls[c][n].err = "OK"

C21_Witness ==
    \E c \in Calls :
        /\ Len(calls[c]) = 2
        /\ calls[c][1].product_id # calls[c][2].product_id
        /\ calls[c][1].err = "OK"
        /\ calls[c][2].err = "OK"

\* C22: an order row exists only for a placement in which the UpdateStock of
\* every line item returned without error and was applied with the item's
\* quantity.
C22_OrderAfterAllReserved ==
    \A c \in Calls :
        HasOrder(c) =>
            /\ AllReserved(c)
            /\ \A n \in 1..Len(req[c].items) :
                  /\ calls[c][n].applied
                  /\ calls[c][n].product_id = req[c].items[n].product_id
                  /\ calls[c][n].delta = 0 - req[c].items[n].quantity

C22_Witness ==
    \E c \in Calls :
        /\ HasOrder(c)
        /\ Len(req[c].items) = 2
        /\ req[c].items[1].product_id # req[c].items[2].product_id

\* the products of the first i items of an item list
ProductsUpTo(items, i) == {items[n].product_id : n \in 1..i}

\* C23: when the reservation of a placement fails at item i, no call is issued
\* for the items after i, and the stock of a product that appears only in
\* those items is not changed by the placement.
C23_LaterItemsUntouched ==
    \A c \in Calls :
        LET i == FirstFailure(calls[c])
        IN i > 0 =>
             /\ Len(calls[c]) = i
             /\ \A p \in ProductIds \ ProductsUpTo(req[c].items, i) :
                   /\ \A n \in 1..Len(calls[c]) : calls[c][n].product_id # p
                   /\ NetDelta(calls[c], p) = 0
                   /\ ( /\ p \in KnownProducts
                        /\ admin = 0
                        /\ \A d \in Calls \ {c} : calls[d] = <<>> )
                      => stock[p] = InitStock

C23_Witness ==
    \E c \in Calls :
        /\ pc[c] = "done"
        /\ FirstFailure(calls[c]) = 1
        /\ Len(req[c].items) = 2
        /\ req[c].items[2].product_id \in KnownProducts
        /\ req[c].items[2].product_id # req[c].items[1].product_id
        /\ req[c].items[2].quantity > 0
        /\ stock[req[c].items[2].product_id] = InitStock

\* C24: after a failed reservation every item reserved before the failure
\* gets a release attempt, whatever the outcome of the other releases, and if
\* a release failed the order is stored CANCELLED with
\* needs_reconciliation = true.
C24_CompensationContinues ==
    \A c \in Calls :
        ( /\ ReservationFailed(c)
          /\ PositiveQuantities(c)
          /\ NoTransportError(c) ) =>
            LET n == FirstFailure(calls[c])
                releases == {m \in (n + 1)..Len(calls[c]) : calls[c][m].delta > 0}
            IN /\ \A j \in 1..(n - 1) :
                     \E m \in releases :
                        /\ calls[c][m].product_id = req[c].items[j].product_id
                        /\ calls[c][m].delta = req[c].items[j].quantity
               /\ (\E m \in releases : calls[c][m].err # "OK") =>
                     /\ HasOrder(c)
                     /\ OrderOf(c).status = "CANCELLED"
                     /\ "needs_reconciliation" \in DOMAIN OrderOf(c)
                     /\ OrderOf(c).needs_reconciliation

\* C25: when CreateOrder returns the error of a failed INSERT INTO orders,
\* every product's stock is back at its value before the call, or an order
\* row accounts for the decrement.
C25_PersistFailureRestores ==
    \A c \in Calls :
        ( /\ pc[c] = "done"
          /\ result[c] = "Internal"
          /\ PositiveQuantities(c)
          /\ NoTransportError(c) ) =>
            \/ HasOrder(c)
            \/ \A p \in KnownProducts : NetDelta(calls[c], p) = 0

\* sum over the calls in S of the deltas they applied to product p
RECURSIVE AppliedBy(_, _)
AppliedBy(S, p) ==
    IF S = {} THEN 0
    ELSE LET c == CHOOSE x \in S : TRUE
         IN NetDelta(calls[c], p) + AppliedBy(S \ {c}, p)

\* C26: no stock update is lost: under every interleaving the stock of a
\* product is its initial stock plus the sum of the deltas applied to it.
C26_NoLostUpdate ==
    \A p \in KnownProducts :
        stock[p] = InitStock + AppliedBy(Calls, p) + restock[p]

C26_Witness ==
    /\ restock["P1"] > 0
    /\ \A c \in {1, 2} :
          \E n \in 1..Len(calls[c]) :
              /\ calls[c][n].product_id = "P1"
              /\ calls[c][n].applied
              /\ calls[c][n].err = "OK"
              /\ calls[c][n].delta < 0

\* C27: when CreateOrder returns an order, the stored line items of that
\* order are the items of the request, and the returned id, user, total and
\* status are those of the stored order row.
C27_ResponseMatchesStore ==
    \A c \in Calls :
        ( /\ pc[c] = "done"
          /\ result[c] = "OK"
          /\ PositiveQuantities(c) ) =>
            /\ order_items[c] = req[c].items
            /\ HasOrder(c)
            /\ resp[c].id = OrderOf(c).id
            /\ resp[c].user_id = OrderOf(c).user_id
            /\ resp[c].total = OrderOf(c).total
            /\ resp[c].status = OrderOf(c).status

====
